---- MODULE Spec2Model ----
(***************************************************************************)
(* Model of gen_points.go: the line parser (parser.Parse, isSection), the  *)
(* geocode client (doGeocodeClinic) and the bounded dispatcher loop of     *)
(* main with its limiter channel and WaitGroup.                            *)
(*                                                                         *)
(* Strings are sequences of one-character strings, so that trimming,       *)
(* splitting, header recognition and number parsing are computed the way   *)
(* the code computes them.                                                 *)
(***************************************************************************)
EXTENDS Integers, Sequences, FiniteSets, TLC

VARIABLES
    pc,        \* position of main: "parse","loop","send","go","wait","encode","done","panic"
    read,      \* lines r.Scan() has delivered so far (raw, untrimmed)
    input,     \* the input file family: [lines |-> its possible lines, max |-> its length bound]
    nextMode,  \* parser.nextMode
    cc,        \* the in-progress Clinic of Parse (local variable cc)
    clinics,   \* the global slice clinics (position = identity of the *Clinic)
    parsed,    \* value of clinics when p.Parse(f) returned
    idx,       \* number of range iterations of main's loop already begun
    wg,        \* counter of the sync.WaitGroup
    limiter,   \* number of elements buffered in the limiter channel
    gor,       \* the goroutines spawned by main, in spawn order
    stub,      \* the replies the geocoding endpoint may give
    out        \* what json.Encoder wrote (<<>> before encoding)

vars == <<pc, read, input, nextMode, cc, clinics, parsed, idx, wg, limiter, gor, stub, out>>

----------------------------------------------------------------------------
(* Bounds of the model *)

MaxLines == 7       \* lines read in the parser-only specification
MaxFileLines == 5   \* lines read in the whole-program specification
MaxSmall == 2       \* records of the small dispatcher collections
MaxExtra == 1       \* records beyond the limiter capacity in the large collection
MaxFree == 2        \* slots left to the calls that return when other calls hang

----------------------------------------------------------------------------
(* Characters and strings *)

Digits == {"0", "1", "2", "3", "4", "5", "6", "7", "8", "9"}
DigitChars == <<"0", "1", "2", "3", "4", "5", "6", "7", "8", "9">>
DigitVal(c) == (CHOOSE i \in 1..10 : DigitChars[i] = c) - 1

\* unicode.IsSpace on the characters that occur (space, tab, CR)
IsSpace(c) == c \in {" ", "\t", "\r"}

\* unicode.IsNumber(rune(b)) on an ASCII byte
IsNumber(c) == c \in Digits

RECURSIVE TrimLeft(_)
TrimLeft(s) ==
    IF s # <<>> /\ IsSpace(Head(s)) THEN TrimLeft(Tail(s)) ELSE s

RECURSIVE TrimRight(_)
TrimRight(s) ==
    IF s # <<>> /\ IsSpace(s[Len(s)]) THEN TrimRight(SubSeq(s, 1, Len(s) - 1)) ELSE s

\* strings.TrimSpace
TrimSpace(s) == TrimRight(TrimLeft(s))

----------------------------------------------------------------------------
(* Clinic records *)

\* Clinic{} : the zero value; Points is a nil slice
ZeroClinic == [Name |-> <<>>, RawAddress |-> <<>>, Phone |-> <<>>, Address |-> <<>>, Points |-> <<>>]

\* the fields the parser fills
Key(c) == <<c.Name, c.RawAddress, c.Phone>>

----------------------------------------------------------------------------
(* parser *)

MODE_NONE == 0
MODE_SECTION == 1
MODE_NAME == 2
MODE_ADDRESS == 3
MODE_PHONE == 4

\* variant: a digit and '.' make a header whatever the length
isSectionShort(line) ==
    Len(line) >= 2 /\ IsNumber(line[1]) /\ line[2] = "."

\* variant: only a single digit before the '.' makes a header
isSectionOneDigit(line) ==
    Len(line) >= 3 /\ IsNumber(line[1]) /\ line[2] = "."

\* isSection(line), line already trimmed
isSection(line) ==
    IF Len(line) < 3 THEN FALSE
    ELSE LET a == line[1]
             b == line[2]
             c == line[3]
         IN  IsNumber(a) /\ (b = "." \/ (IsNumber(b) /\ c = "."))

L_blank == <<>>
L_space == <<" ">>
L_short == <<"1", ".">>
L_hdr == <<"1", "2", ".">>
L_hdr1 == <<"7", ".", "A">>
L_name == <<"C", "l", "i", "n", "i", "c", "A">>
L_addr == <<"M", "a", "i", "n", " ", "S", "t", " ", "1">>
L_addrPad == <<" ">> \o L_addr \o <<" ">>
L_phone == <<"5", "5", "5", "-", "1", "2", "3", "4">>
L_phone2 == <<"5", "5", "5", "-", "9">>

\* the lines an input file is made of
Lines == {L_blank, L_short, L_hdr, L_name, L_addr, L_phone}
LinesParse == {L_space, L_hdr, L_name, L_addrPad, L_phone, L_phone2}
LinesHeaders == {L_blank, L_hdr, L_hdr1, L_short, L_name, L_phone}

\* variant: the new record is put in front
EmitFront(c) == <<c>> \o clinics

\* variant: a record without any field is not emitted
EmitComplete(c) == IF c = ZeroClinic THEN clinics ELSE Append(clinics, c)

\* clinics = append(clinics, &c)
Emit(c) == Append(clinics, c)

\* variant: only the first line in phone mode is kept
OnPhoneSticky(line) == IF cc.Phone = <<>> THEN [cc EXCEPT !.Phone = line] ELSE cc

\* case _MODE_PHONE: cc.Phone = line
OnPhone(line) == [cc EXCEPT !.Phone = line]

\* one iteration of the for r.Scan() loop on the raw line raw
ParseLine(raw) ==
    LET line == TrimSpace(raw)
    IN  IF line = <<>>
        THEN /\ clinics' = Emit(cc)
             /\ cc' = ZeroClinic
             /\ nextMode' = MODE_NAME
        ELSE IF isSection(line)
        THEN /\ nextMode' = MODE_NAME
             /\ UNCHANGED <<cc, clinics>>
        ELSE IF nextMode = MODE_NAME
        THEN /\ cc' = [cc EXCEPT !.Name = line]
             /\ nextMode' = MODE_ADDRESS
             /\ UNCHANGED clinics
        ELSE IF nextMode = MODE_ADDRESS
        THEN /\ cc' = [cc EXCEPT !.RawAddress = line]
             /\ nextMode' = MODE_PHONE
             /\ UNCHANGED clinics
        ELSE IF nextMode = MODE_PHONE
        THEN /\ cc' = OnPhone(line)
             /\ UNCHANGED <<nextMode, clinics>>
        ELSE UNCHANGED <<nextMode, cc, clinics>>

\* r.Scan() returns true and delivers a line
Scan ==
    /\ pc = "parse"
    /\ Len(read) < input.max
    /\ \E raw \in input.lines :
          /\ read' = Append(read, raw)
          /\ ParseLine(raw)
    /\ UNCHANGED <<pc, input, parsed, idx, wg, limiter, gor, stub, out>>

\* variant: the record in progress is emitted at the end of the input
ScanEOFFlush ==
    /\ pc = "parse"
    /\ pc' = "loop"
    /\ clinics' = IF cc = ZeroClinic THEN clinics ELSE Append(clinics, cc)
    /\ parsed' = clinics'
    /\ UNCHANGED <<read, input, nextMode, cc, idx, wg, limiter, gor, stub, out>>

\* r.Scan() returns false: Parse returns, nothing is flushed
ScanEOF ==
    /\ pc = "parse"
    /\ pc' = "loop"
    /\ parsed' = clinics
    /\ UNCHANGED <<read, input, nextMode, cc, clinics, idx, wg, limiter, gor, stub, out>>

----------------------------------------------------------------------------
(* strconv.ParseFloat(s, 32) *)

RECURSIVE ToNat(_)
ToNat(s) == IF s = <<>> THEN 0 ELSE 10 * ToNat(SubSeq(s, 1, Len(s) - 1)) + DigitVal(s[Len(s)])

RECURSIVE Pow(_, _)
Pow(b, e) == IF e = 0 THEN 1 ELSE b * Pow(b, e - 1)

AllDigits(s) == \A i \in 1..Len(s) : s[i] \in Digits

\* doubles x until 2^23 * d <= x (a 24-bit significand, 2^23 = 8388608): the
\* binary exponent of n/d as a float32
RECURSIVE Scale(_, _, _)
Scale(x, d, s) == IF x >= 8388608 * d THEN [x |-> x, s |-> s] ELSE Scale(2 * x, d, s + 1)

\* drops trailing zero bits: one representation per value
RECURSIVE Norm(_, _)
Norm(m, s) == IF s > 0 /\ m % 2 = 0 THEN Norm(m \div 2, s - 1) ELSE [m |-> m, s |-> s]

\* the float32 nearest to n / 10^k (ties to even), as m / 2^s.
\* Covers 0 and the normal values below 2^23 with k <= 2, which is where the
\* tokens of the model lie (no overflow to Inf, no subnormals).
Round32(n, k) ==
    IF n = 0 THEN [m |-> 0, s |-> 0]
    ELSE LET d  == Pow(10, k)
             sc == Scale(n, d, 0)
             q  == sc.x \div d
             r  == sc.x % d
             m  == IF 2 * r > d \/ (2 * r = d /\ q % 2 = 1) THEN q + 1 ELSE q
         IN  Norm(m, sc.s)

T_NaN == <<"N", "a", "N">>
T_Inf == <<"I", "n", "f">>

\* the index of the first c in s, 0 when there is none
IndexOf(s, c) ==
    IF \E i \in 1..Len(s) : s[i] = c
    THEN CHOOSE i \in 1..Len(s) : s[i] = c /\ \A j \in 1..(i - 1) : s[j] # c
    ELSE 0

\* ParseFloat(s, 32): [err, v]; v is the value as a float64 (every float32
\* is one). Of Go's grammar: sign, digits, '.', digits, and the specials
\* NaN and Inf; exponents and hex floats are not among the tokens.
ParseFloat(s) ==
    LET signed == s # <<>> /\ Head(s) \in {"+", "-"}
        neg == s # <<>> /\ Head(s) = "-"
        u == IF signed THEN Tail(s) ELSE s
        dot == IndexOf(u, ".")
        ip == IF dot = 0 THEN u ELSE SubSeq(u, 1, dot - 1)
        fp == IF dot = 0 THEN <<>> ELSE SubSeq(u, dot + 1, Len(u))
    IN  IF s = T_NaN THEN [err |-> FALSE, v |-> [kind |-> "nan", neg |-> FALSE, m |-> 0, s |-> 0]]
        ELSE IF u = T_Inf THEN [err |-> FALSE, v |-> [kind |-> "inf", neg |-> neg, m |-> 0, s |-> 0]]
        ELSE IF AllDigits(ip) /\ AllDigits(fp) /\ Len(ip) + Len(fp) >= 1
        THEN LET f == Round32(ToNat(ip \o fp), Len(fp))
             IN  [err |-> FALSE, v |-> [kind |-> "num", neg |-> neg, m |-> f.m, s |-> f.s]]
        ELSE [err |-> TRUE, v |-> [kind |-> "num", neg |-> FALSE, m |-> 0, s |-> 0]]

\* strings.SplitN(s, " ", 2)
SplitN2(s) ==
    LET i == IndexOf(s, " ")
    IN  IF i = 0 THEN <<s>> ELSE <<SubSeq(s, 1, i - 1), SubSeq(s, i + 1, Len(s))>>

----------------------------------------------------------------------------
(* Geocode client *)

\* What http.Get and the JSON decoder deliver for one request:
\*   transport  FALSE when http.Get returns an error
\*   status     resp.StatusCode
\*   decodable  FALSE when Decode(&geoResp) returns an error
\*   members    geoResp.Response.GeoObjectCollection.FeatureMember, each
\*              member reduced to Point.Pos and GeocoderMetaData.Text
Reply(transport, status, decodable, members) ==
    [transport |-> transport, status |-> status, decodable |-> decodable, members |-> members]

StatusOK == 200

P_pair == <<"3", "7", ".", "6", " ", "5", "5", ".", "7", "5">>
P_wide == <<"1", ".", "5", " ", " ", "-", "0", ".", "2", "5">>
P_one == <<"3", "7", ".", "6">>
P_three == <<"3", "7", ".", "6", " ", "5", "5", ".", "7", "5", " ", "1">>
P_bad1 == <<"x", " ", "5", "5", ".", "7", "5">>
P_bad2 == <<"3", "7", ".", "6", " ", "y">>
P_nan == <<"N", "a", "N", " ", "1">>
X_text == <<"M", "s", "k">>
X_other == <<"S", "p", "b">>

Member(pos, text) == [pos |-> pos, text |-> text]

R_ok == Reply(TRUE, StatusOK, TRUE, <<Member(P_pair, X_text)>>)
R_first == Reply(TRUE, StatusOK, TRUE, <<Member(P_wide, X_other), Member(P_pair, X_text)>>)
R_notext == Reply(TRUE, StatusOK, TRUE, <<Member(P_pair, <<>>)>>)
R_nan == Reply(TRUE, StatusOK, TRUE, <<Member(P_nan, X_text)>>)
R_transport == Reply(FALSE, 0, FALSE, <<>>)
R_status == Reply(TRUE, 500, TRUE, <<Member(P_pair, X_text)>>)
R_garbage == Reply(TRUE, StatusOK, FALSE, <<>>)
R_none == Reply(TRUE, StatusOK, TRUE, <<>>)
R_one == Reply(TRUE, StatusOK, TRUE, <<Member(P_one, X_text)>>)
R_three == Reply(TRUE, StatusOK, TRUE, <<Member(P_three, X_text)>>)
R_bad1 == Reply(TRUE, StatusOK, TRUE, <<Member(P_bad1, X_text)>>)
R_bad2 == Reply(TRUE, StatusOK, TRUE, <<Member(P_bad2, X_text)>>)

Replies == {R_ok, R_first, R_notext, R_nan, R_transport, R_status, R_garbage,
            R_none, R_one, R_three, R_bad1, R_bad2}

\* no request was made (no reply has status -1)
NoReply == Reply(FALSE, -1, FALSE, <<>>)

\* return fmt.Errorf(...) / return err : the Clinic is handed back as it is
Failed(c, e, resp) == [err |-> e, cc |-> c, resp |-> resp]

\* variant: the address is assigned before the position is parsed
ConvertEager(c, geoObj, resp) ==
    LET d == [c EXCEPT !.Address = geoObj.text]
        rawPoints == SplitN2(geoObj.pos)
    IN  IF Len(rawPoints) # 2 THEN Failed(d, "bad points in response", resp)
        ELSE LET lat == ParseFloat(TrimSpace(rawPoints[1]))
                 long == ParseFloat(TrimSpace(rawPoints[2]))
             IN  IF lat.err \/ long.err THEN Failed(d, "parse float", resp)
                 ELSE [err |-> "", cc |-> [d EXCEPT !.Points = <<long.v, lat.v>>], resp |-> resp]

\* variant: the pair is stored in wire order
ConvertWireOrder(c, geoObj, resp) ==
    LET rawPoints == SplitN2(geoObj.pos)
    IN  IF Len(rawPoints) # 2 THEN Failed(c, "bad points in response", resp)
        ELSE LET lat == ParseFloat(TrimSpace(rawPoints[1]))
                 long == ParseFloat(TrimSpace(rawPoints[2]))
             IN  IF lat.err \/ long.err THEN Failed(c, "parse float", resp)
                 ELSE [err |-> "",
                       cc |-> [c EXCEPT !.Points = <<lat.v, long.v>>,
                                        !.Address = geoObj.text],
                       resp |-> resp]

\* from the split of Point.Pos to the two assignments
Convert(c, geoObj, resp) ==
    LET rawPoints == SplitN2(geoObj.pos)
    IN  IF Len(rawPoints) # 2 THEN Failed(c, "bad points in response", resp)
        ELSE LET lat == ParseFloat(TrimSpace(rawPoints[1]))
                 long == ParseFloat(TrimSpace(rawPoints[2]))
             IN  IF lat.err \/ long.err THEN Failed(c, "parse float", resp)
                 ELSE [err |-> "",
                       cc |-> [c EXCEPT !.Points = <<long.v, lat.v>>,
                                        !.Address = geoObj.text],
                       resp |-> resp]

\* variant: an answer without feature members is taken for a success
FetchSilent(c, resp) ==
    IF ~resp.transport THEN Failed(c, "transport", resp)
    ELSE IF resp.status # StatusOK THEN Failed(c, "bad response status", resp)
    ELSE IF ~resp.decodable THEN Failed(c, "decode", resp)
    ELSE IF Len(resp.members) = 0 THEN [err |-> "", cc |-> c, resp |-> resp]
    ELSE Convert(c, resp.members[1], resp)

\* http.Get, the status check, the decoding and the first feature member
Fetch(c, resp) ==
    IF ~resp.transport THEN Failed(c, "transport", resp)
    ELSE IF resp.status # StatusOK THEN Failed(c, "bad response status", resp)
    ELSE IF ~resp.decodable THEN Failed(c, "decode", resp)
    ELSE IF Len(resp.members) = 0 THEN Failed(c, "no geoobject in response", resp)
    ELSE Convert(c, resp.members[1], resp)

\* variant: no check of the raw address
doGeocodeClinicUnchecked(c, resp) == Fetch(c, resp)

\* doGeocodeClinic(cc) when the endpoint would answer resp:
\* [err |-> "" for nil, cc |-> the Clinic afterwards,
\*  resp |-> the answer http.Get delivered, NoReply when it was not called]
doGeocodeClinic(c, resp) ==
    IF c.RawAddress = <<>> THEN Failed(c, "no raw address", NoReply)
    ELSE Fetch(c, resp)

----------------------------------------------------------------------------
(* main: the dispatcher loop *)

LimiterCap == 10

\* for _, cc := range clinics { wg.Add(1) ... }  /  the loop ends
LoopNext ==
    /\ pc = "loop"
    /\ IF idx < Len(clinics)
       THEN /\ idx' = idx + 1
            /\ wg' = wg + 1
            /\ pc' = "send"
       ELSE /\ pc' = "wait"
            /\ UNCHANGED <<idx, wg>>
    /\ UNCHANGED <<read, input, nextMode, cc, clinics, parsed, limiter, gor, stub, out>>

\* variant: main starts the goroutine without sending into the limiter
SendSkipped ==
    /\ pc = "send"
    /\ pc' = "go"
    /\ UNCHANGED <<read, input, nextMode, cc, clinics, parsed, idx, wg, limiter, gor, stub, out>>

\* variant: the send never blocks
SendUnbounded ==
    /\ pc = "send"
    /\ limiter' = limiter + 1
    /\ pc' = "go"
    /\ UNCHANGED <<read, input, nextMode, cc, clinics, parsed, idx, wg, gor, stub, out>>

\* limiter <- struct{}{} : blocks while the channel holds LimiterCap elements
Send ==
    /\ pc = "send"
    /\ limiter < LimiterCap
    /\ limiter' = limiter + 1
    /\ pc' = "go"
    /\ UNCHANGED <<read, input, nextMode, cc, clinics, parsed, idx, wg, gor, stub, out>>

\* variant: every goroutine works on the last record
SpawnedShared(i) == [cc |-> Len(clinics), st |-> "call", err |-> "", resp |-> NoReply]

\* the goroutine started for the record at position i
Spawned(i) == [cc |-> i, st |-> "call", err |-> "", resp |-> NoReply]

\* go func(cc *Clinic) {...}(cc) : the goroutine starts on its call of doGeocodeClinic
Go ==
    /\ pc = "go"
    /\ gor' = Append(gor, Spawned(idx))
    /\ pc' = "loop"
    /\ UNCHANGED <<read, input, nextMode, cc, clinics, parsed, idx, wg, limiter, stub, out>>

\* variant: results are stored in the order of completion
GeocodeByCompletion(g) ==
    /\ gor[g].st = "call"
    /\ \E resp \in stub :
          LET r == doGeocodeClinic(clinics[gor[g].cc], resp)
              k == 1 + Cardinality({h \in 1..Len(gor) : gor[h].st # "call"})
          IN  /\ clinics' = [clinics EXCEPT ![k] = r.cc]
              /\ gor' = [gor EXCEPT ![g].st = "ret", ![g].err = r.err, ![g].resp = r.resp]
    /\ UNCHANGED <<pc, read, input, nextMode, cc, parsed, idx, wg, limiter, stub, out>>

\* doGeocodeClinic(cc) of goroutine g returns; an error is written to stderr
Geocode(g) ==
    /\ gor[g].st = "call"
    /\ \E resp \in stub :
          LET r == doGeocodeClinic(clinics[gor[g].cc], resp)
          IN  /\ clinics' = [clinics EXCEPT ![gor[g].cc] = r.cc]
              /\ gor' = [gor EXCEPT ![g].st = "ret", ![g].err = r.err, ![g].resp = r.resp]
    /\ UNCHANGED <<pc, read, input, nextMode, cc, parsed, idx, wg, limiter, stub, out>>

\* the endpoint leaves every request for this address unanswered
HangAddress == <<"X">>

\* the request of goroutine g gets no answer
Unanswered(g) == clinics[gor[g].cc].RawAddress = HangAddress

\* variant: a call that hangs gives its slot back
HangFreesSlot(g) ==
    /\ gor[g].st = "call"
    /\ Unanswered(g)
    /\ limiter > 0
    /\ limiter' = limiter - 1
    /\ gor' = [gor EXCEPT ![g].st = "hung"]
    /\ UNCHANGED <<pc, read, input, nextMode, cc, clinics, parsed, idx, wg, stub, out>>

\* http.Get of goroutine g blocks for good: the client has no timeout
Hang(g) ==
    /\ gor[g].st = "call"
    /\ Unanswered(g)
    /\ gor' = [gor EXCEPT ![g].st = "hung"]
    /\ UNCHANGED <<pc, read, input, nextMode, cc, clinics, parsed, idx, wg, limiter, stub, out>>

\* variant: a goroutine whose call failed returns before the release
ReleaseOnSuccess(g) ==
    /\ gor[g].st = "ret"
    /\ gor[g].err = ""
    /\ limiter > 0
    /\ limiter' = limiter - 1
    /\ wg' = wg - 1
    /\ gor' = [gor EXCEPT ![g].st = "done"]
    /\ UNCHANGED <<pc, read, input, nextMode, cc, clinics, parsed, idx, stub, out>>

\* variant: the goroutine ends without receiving from the limiter
ReleaseNoRecv(g) ==
    /\ gor[g].st = "ret"
    /\ wg' = wg - 1
    /\ gor' = [gor EXCEPT ![g].st = "done"]
    /\ UNCHANGED <<pc, read, input, nextMode, cc, clinics, parsed, idx, limiter, stub, out>>

\* <-limiter ; wg.Done() : the tail of goroutine g
Release(g) ==
    /\ gor[g].st = "ret"
    /\ limiter > 0
    /\ limiter' = limiter - 1
    /\ wg' = wg - 1
    /\ gor' = [gor EXCEPT ![g].st = "done"]
    /\ UNCHANGED <<pc, read, input, nextMode, cc, clinics, parsed, idx, stub, out>>

\* variant: main does not wait for the goroutines
WaitEarly ==
    /\ pc = "wait"
    /\ pc' = "encode"
    /\ UNCHANGED <<read, input, nextMode, cc, clinics, parsed, idx, wg, limiter, gor, stub, out>>

\* wg.Wait() returns
Wait ==
    /\ pc = "wait"
    /\ wg = 0
    /\ pc' = "encode"
    /\ UNCHANGED <<read, input, nextMode, cc, clinics, parsed, idx, wg, limiter, gor, stub, out>>

----------------------------------------------------------------------------
(* Serializer *)

\* encoding/json rejects NaN and +-Inf (UnsupportedValueError)
Encodable(c) == \A i \in 1..Len(c.Points) : c.Points[i].kind = "num"

\* the JSON object of one Clinic: address has omitempty; points is null for
\* the nil slice, written <<>> here (no Clinic holds an empty non-nil slice)
EncodeClinic(c) ==
    LET base == [name |-> c.Name, raw_address |-> c.RawAddress, phone |-> c.Phone,
                 points |-> c.Points]
    IN  IF c.Address = <<>> THEN base
        ELSE [name |-> base.name, raw_address |-> base.raw_address, phone |-> base.phone,
              address |-> c.Address, points |-> base.points]

\* json.NewEncoder(&buf).Encode(clinics), panic(err) on failure, then the copy to out
Encode ==
    /\ pc = "encode"
    /\ IF \A i \in 1..Len(clinics) : Encodable(clinics[i])
       THEN /\ out' = [i \in 1..Len(clinics) |-> EncodeClinic(clinics[i])]
            /\ pc' = "done"
       ELSE /\ pc' = "panic"
            /\ UNCHANGED out
    /\ UNCHANGED <<read, input, nextMode, cc, clinics, parsed, idx, wg, limiter, gor, stub>>

----------------------------------------------------------------------------
(* Initial states and specifications *)

\* variant: the parser starts out expecting a name
StartNamed(in, st) ==
    /\ pc = "parse"
    /\ read = <<>>
    /\ input = in
    /\ nextMode = MODE_NAME
    /\ cc = ZeroClinic
    /\ clinics = <<>>
    /\ parsed = <<>>
    /\ idx = 0
    /\ wg = 0
    /\ limiter = 0
    /\ gor = <<>>
    /\ stub = st
    /\ out = <<>>

\* the process after flag.Parse and os.Open, before p.Parse(f)
Start(in, st) ==
    /\ pc = "parse"
    /\ read = <<>>
    /\ input = in
    /\ nextMode = MODE_NONE
    /\ cc = ZeroClinic
    /\ clinics = <<>>
    /\ parsed = <<>>
    /\ idx = 0
    /\ wg = 0
    /\ limiter = 0
    /\ gor = <<>>
    /\ stub = st
    /\ out = <<>>

StubMain == {R_ok, R_none}

\* the whole program on files of at most MaxFileLines lines
Init == Start([lines |-> Lines, max |-> MaxFileLines], StubMain)

\* the parser alone on files of at most MaxLines lines
InitParse == Start([lines |-> LinesParse, max |-> MaxLines], {})

\* the parser alone on files with both kinds of header and a short "1."
InitHeaders == Start([lines |-> LinesHeaders, max |-> MaxLines], {})

Parsed(name, addr, phone) ==
    [Name |-> name, RawAddress |-> addr, Phone |-> phone, Address |-> <<>>, Points |-> <<>>]

K_full == Parsed(L_name, L_addr, L_phone)
K_nophone == Parsed(<<"C">>, <<"X">>, <<>>)
K_noaddr == Parsed(<<"B">>, <<>>, <<>>)
Kinds == {K_full, K_nophone, K_noaddr, ZeroClinic}

SmallCollections == UNION {[1..k -> Kinds] : k \in 0..MaxSmall}

LargeLen == LimiterCap + MaxExtra
LargeCollection ==
    [i \in 1..LargeLen |->
        Parsed(<<"N", DigitChars[(i \div 10) + 1], DigitChars[(i % 10) + 1]>>,
               IF i % 4 = 0 THEN <<>> ELSE <<"X">>, <<>>)]

\* a file Parse turns into the collection col: per record a header, the
\* lines of its fields and a blank line
RECURSIVE FileOf(_)
FileOf(col) ==
    IF col = <<>> THEN <<>>
    ELSE LET c == Head(col)
             fields == SelectSeq(<<c.Name, c.RawAddress, c.Phone>>, LAMBDA f : f # <<>>)
         IN  <<L_hdr>> \o fields \o <<L_blank>> \o FileOf(Tail(col))

\* the process when p.Parse(f) has returned the collection col
AfterParse(col, st) ==
    /\ pc = "loop"
    /\ read = FileOf(col)
    /\ input = [lines |-> Lines \cup {c.Name : c \in Kinds} \cup {<<"X">>}, max |-> Len(read)]
    /\ nextMode = IF col = <<>> THEN MODE_NONE ELSE MODE_NAME
    /\ cc = ZeroClinic
    /\ clinics = col
    /\ parsed = col
    /\ idx = 0
    /\ wg = 0
    /\ limiter = 0
    /\ gor = <<>>
    /\ stub = st
    /\ out = <<>>

InitDispatch == \E col \in SmallCollections : AfterParse(col, Replies)

InitLarge == AfterParse(LargeCollection, {R_none})

NextParse == Scan \/ ScanEOF

NextDispatch ==
    \/ LoopNext
    \/ Send
    \/ Go
    \/ \E g \in 1..Len(gor) : Geocode(g)
    \/ \E g \in 1..Len(gor) : Release(g)
    \/ Wait
    \/ Encode

Next == NextParse \/ NextDispatch

\* the steps when the endpoint leaves the requests for HangAddress unanswered
NextHang ==
    \/ LoopNext
    \/ Send
    \/ Go
    \/ \E g \in 1..Len(gor) : ~Unanswered(g) /\ Geocode(g)
    \/ \E g \in 1..Len(gor) : Hang(g)
    \/ \E g \in 1..Len(gor) : Release(g)
    \/ Wait
    \/ Encode

Spec == Init /\ [][Next]_vars

SpecParse == InitParse /\ [][NextParse]_vars

SpecHeaders == InitHeaders /\ [][NextParse]_vars

SpecDispatch == InitDispatch /\ [][NextDispatch]_vars

SpecLarge == InitLarge /\ [][NextDispatch]_vars

\* the endpoint of the fair runs: a result, a bad status or no result
FairReplies == {R_ok, R_status, R_none}

InitFair == \E col \in SmallCollections : AfterParse(col, FairReplies)

\* the Go scheduler runs every runnable goroutine, and every request is answered
FairDispatch == InitFair /\ [][NextDispatch]_vars /\ WF_vars(NextDispatch)

\* more records than slots, the first k of them with requests that hang
HangCollection(k) ==
    [i \in 1..LargeLen |->
        Parsed(<<"N", DigitChars[(i \div 10) + 1], DigitChars[(i % 10) + 1]>>,
               IF i <= k THEN HangAddress ELSE L_addr, <<>>)]

HangCollections == {HangCollection(k) : k \in (LimiterCap - MaxFree)..(LimiterCap - 1)}

InitHang == \E col \in SmallCollections \cup HangCollections : AfterParse(col, {R_none})

\* the scheduler runs every goroutine that can take a step
FairHang == InitHang /\ [][NextHang]_vars /\ WF_vars(NextHang)

----------------------------------------------------------------------------
(* Properties of the dispatcher and of the geocode client *)

Gs == 1..Len(gor)
Recs == 1..Len(clinics)

\* goroutines whose call of doGeocodeClinic has started and not returned
InFlight == {g \in Gs : gor[g].st = "call"}

\* completed / running attempts on the record at position r
Attempts(r) == Cardinality({g \in Gs : gor[g].cc = r /\ gor[g].st # "call"})
Running(r) == Cardinality({g \in Gs : gor[g].cc = r /\ gor[g].st = "call"})

\* wg.Wait() has returned
PassDone == pc \in {"encode", "done", "panic"}

\* C1: at most 10 calls of doGeocodeClinic are started and not yet returned,
\* in every reachable state, also with more than 10 records.
C1_AtMostTenInFlight == Cardinality(InFlight) <= 10

\* ten calls in flight while main is blocked sending for an eleventh record
C1_Witness == pc = "send" /\ idx = 11 /\ Cardinality(InFlight) = 10

\* C2: no record ever has two attempts (running or completed), and once
\* wg.Wait() has returned every record has exactly one completed attempt.
C2_ExactlyOneAttempt ==
    /\ \A r \in Recs : Attempts(r) + Running(r) <= 1
    /\ PassDone => \A r \in Recs : Attempts(r) = 1 /\ Running(r) = 0

C2_Witness ==
    /\ pc = "encode"
    /\ Len(clinics) = 2
    /\ gor[1].err = ""
    /\ gor[2].err # ""

\* C3: after the pass the collection has the length and the order (by name,
\* raw address and phone) of the collection the parser produced.
C3_OrderKept ==
    PassDone =>
        /\ Len(clinics) = Len(parsed)
        /\ \A i \in Recs : Key(clinics[i]) = Key(parsed[i])

\* two different records, the first failed and the second geocoded
C3_Witness ==
    /\ pc = "encode"
    /\ Len(clinics) = 2
    /\ clinics[1].Name # clinics[2].Name
    /\ gor[1].err # ""
    /\ gor[1].resp # NoReply
    /\ gor[2].err = ""

\* a failing call changes nothing but its own goroutine
FailureIsLocal ==
    \A g \in Gs :
        (gor[g].st = "call" /\ g \in 1..Len(gor') /\ gor'[g].st = "ret" /\ gor'[g].err # "")
            => /\ pc' = pc
               /\ wg' = wg
               /\ limiter' = limiter
               /\ clinics' = clinics
               /\ \A h \in Gs \ {g} : gor'[h] = gor[h]

\* C4: a failed attempt leaves main and the other goroutines as they are, and
\* whatever attempts fail, wg.Wait() returns with every record attempted.
C4_FailuresIsolated ==
    /\ [][FailureIsLocal]_vars
    /\ <>(pc = "encode" /\ \A r \in Recs : Attempts(r) = 1)

\* the pass is over, one attempt failed at the endpoint and another succeeded
C4_Witness ==
    /\ pc = "encode"
    /\ \E g, h \in Gs : gor[g].err = "bad response status" /\ gor[h].err = ""

\* C5: a record with an empty raw address is never changed, and its attempt
\* returns an error without a request.
C5_EmptyAddress ==
    \A r \in Recs :
        parsed[r].RawAddress = <<>> =>
            /\ clinics[r] = parsed[r]
            /\ \A g \in Gs : (gor[g].cc = r /\ gor[g].st # "call")
                                => gor[g].err # "" /\ gor[g].resp = NoReply

C5_Witness ==
    /\ pc = "encode"
    /\ \E g \in Gs : parsed[gor[g].cc].RawAddress = <<>> /\ gor[g].st = "done"
    /\ \E g \in Gs : gor[g].err = ""

\* C6: an attempt that returned an error left its record as parsed; one that
\* returned nil assigned the address text of the first result and a pair of
\* coordinates; name, raw address and phone are never changed.
C6_AllOrNothing ==
    \A g \in Gs :
        gor[g].st # "call" =>
            LET r == gor[g].cc
            IN  /\ Key(clinics[r]) = Key(parsed[r])
                /\ gor[g].err # "" => clinics[r] = parsed[r]
                /\ gor[g].err = "" =>
                      /\ Len(clinics[r].Points) = 2
                      /\ gor[g].resp # NoReply
                      /\ clinics[r].Address = gor[g].resp.members[1].text

\* one attempt failed on the number after the split, another succeeded
C6_Witness ==
    \E g, h \in Gs :
        /\ gor[g].err = "parse float"
        /\ gor[g].resp = R_bad2
        /\ gor[h].err = ""

\* The decimal numbers on the wire of the replies whose position is two
\* numeric tokens: [neg, n, k] is (-1)^neg * n / 10^k.
Decimal(neg, n, k) == [neg |-> neg, n |-> n, k |-> k]
WireTokens(pos) ==
    IF pos = P_pair THEN <<Decimal(FALSE, 376, 1), Decimal(FALSE, 5575, 2)>>
    ELSE <<Decimal(FALSE, 15, 1), Decimal(TRUE, 25, 2)>>
TwoNumeric == {P_pair, P_wide}

\* v is the float64 written d in decimal. A float64 written d is within
\* d * 2^-53 of d; v = m / 2^s with n * 2^s below 2^31, so it is that float64
\* exactly when m * 10^k = n * 2^s.
IsDecimal(v, d) ==
    /\ v.kind = "num"
    /\ v.neg = d.neg
    /\ v.m * Pow(10, d.k) = d.n * Pow(2, v.s)

\* v is d up to single precision: |v - d| <= d * 2^-24
NearDecimal(v, d) ==
    /\ v.kind = "num"
    /\ v.neg = d.neg
    /\ LET a == v.m * Pow(10, d.k)
           b == d.n * Pow(2, v.s)
       IN  (IF a >= b THEN a - b ELSE b - a) <= b \div Pow(2, 24)

\* goroutines whose call returned nil on a position of two numeric tokens
Geocoded == {g \in Gs : /\ gor[g].st # "call"
                        /\ gor[g].err = ""
                        /\ gor[g].resp.members[1].pos \in TwoNumeric}

\* C7 as stated: the stored pair is the two wire numbers in reverse order,
\* [55.75, 37.6] for "37.6 55.75".
C7_Original ==
    \A g \in Geocoded :
        LET t == WireTokens(gor[g].resp.members[1].pos)
            p == clinics[gor[g].cc].Points
        IN  Len(p) = 2 /\ IsDecimal(p[1], t[2]) /\ IsDecimal(p[2], t[1])

\* C7, amended: the stored pair is the two wire numbers in reverse order, each
\* rounded to single precision; for "37.6 55.75" it is
\* [55.75, 37.599998474121094] = [223/2^2, 4928307/2^17].
C7_ReversedSinglePrecision ==
    \A g \in Geocoded :
        LET pos == gor[g].resp.members[1].pos
            t == WireTokens(pos)
            p == clinics[gor[g].cc].Points
        IN  /\ Len(p) = 2
            /\ NearDecimal(p[1], t[2])
            /\ NearDecimal(p[2], t[1])
            /\ pos = P_pair =>
                  p = <<[kind |-> "num", neg |-> FALSE, m |-> 223, s |-> 2],
                        [kind |-> "num", neg |-> FALSE, m |-> 4928307, s |-> 17]>>

C7_Witness ==
    \E g \in Geocoded : gor[g].resp = R_ok /\ gor[g].st = "done"

----------------------------------------------------------------------------
(* Properties of the parser and of the whole program *)

\* the lines of the model by what they are (not by isSection and TrimSpace)
BlankLines == {L_blank, L_space}
HeaderLines == {L_hdr, L_hdr1}
BodyLine(l) == l \notin BlankLines \cup HeaderLines
Text(l) == IF l = L_addrPad THEN L_addr ELSE l

BlankCount(q) == Cardinality({j \in 1..q : read[j] \in BlankLines})

\* the line read[q] is the blank line that ends a valid block: three body
\* lines that follow a section header or a blank line
ValidBlockAt(q) ==
    /\ q >= 5
    /\ q <= Len(read)
    /\ read[q] \in BlankLines
    /\ \A j \in (q - 3)..(q - 1) : BodyLine(read[j])
    /\ read[q - 4] \in BlankLines \cup HeaderLines

\* C8: the blank line that ends a valid block yields the record of the three
\* lines before it, at the position of the block among the blocks read.
C8_ValidBlocks ==
    \A q \in 1..Len(read) :
        ValidBlockAt(q) =>
            /\ BlankCount(q) <= Len(clinics)
            /\ Key(clinics[BlankCount(q)])
                   = <<Text(read[q - 3]), Text(read[q - 2]), Text(read[q - 1])>>

\* a valid block that is the second block of the input
C8_Witness ==
    \E q \in 1..Len(read) : ValidBlockAt(q) /\ BlankCount(q) = 2 /\ Len(clinics) = 2

File9 == <<L_short, L_name, L_addr, L_phone, L_blank>>
File9Header == <<L_hdr, L_name, L_addr, L_phone, L_blank>>

\* every request of the run was answered with the successful result
AllAnswered == \A g \in Gs : gor[g].resp \in {NoReply, R_ok}

Populated(o) ==
    /\ o.name = L_name
    /\ o.raw_address = L_addr
    /\ o.phone = L_phone
    /\ "address" \in DOMAIN o
    /\ o.address = X_text
    /\ Len(o.points) = 2

\* C9 as stated: the input "1.", "ClinicA", "Main St 1", "555-1234", "" gives
\* one object with these three fields and populated address and points.
C9_Original ==
    (pc = "done" /\ read = File9 /\ AllAnswered) => (Len(out) = 1 /\ Populated(out[1]))

\* C9, amended: "1." is shorter than 3 characters, hence no section header, and
\* the parser has no expected role yet: that input gives one object with empty
\* name, raw_address and phone, no address and null points. With a header of
\* 3 characters ("12.") in its place the object is the populated one.
C9_EndToEnd ==
    /\ (pc = "done" /\ read = File9) =>
          out = <<[name |-> <<>>, raw_address |-> <<>>, phone |-> <<>>, points |-> <<>>]>>
    /\ (pc = "done" /\ read = File9Header /\ AllAnswered) =>
          (Len(out) = 1 /\ Populated(out[1]))

C9_Witness == pc = "done" /\ read = File9 /\ Len(out) = 1

\* the phone line of the in-progress record has been consumed
PhoneConsumed == pc = "parse" /\ nextMode = MODE_PHONE /\ cc.Phone # <<>>

\* the step reads a line that is neither blank nor a header
ReadsBodyLine == Len(read') = Len(read) + 1 /\ BodyLine(read'[Len(read')])

\* C10 as stated: after the phone line, a further body line changes no field
\* of the in-progress record.
C10_Original == [][(PhoneConsumed /\ ReadsBodyLine) => cc' = cc]_vars

\* C10, amended: after the phone line, a further body line replaces phone and
\* changes nothing else: name, raw address, the expected role and the emitted
\* records stay.
C10_PhoneOverwritten ==
    [][(PhoneConsumed /\ ReadsBodyLine) =>
            /\ cc' = [cc EXCEPT !.Phone = Text(read'[Len(read')])]
            /\ nextMode' = MODE_PHONE
            /\ clinics' = clinics]_vars

\* name, address, phone and one more line have been read
C10_Witness ==
    /\ pc = "parse"
    /\ Len(read) >= 4
    /\ SubSeq(read, Len(read) - 3, Len(read)) = <<L_name, L_addrPad, L_phone, L_phone2>>
    /\ cc.RawAddress = L_addr
    /\ cc.Phone = L_phone2
    /\ nextMode = MODE_PHONE

\* no field of the in-progress record or of an emitted record is a header line
NoHeaderStored ==
    \A c \in {cc} \cup {clinics[i] : i \in Recs} :
        \A f \in {c.Name, c.RawAddress, c.Phone} : f \notin HeaderLines

\* the step reads a section header
ReadsHeader == Len(read') = Len(read) + 1 /\ read'[Len(read')] \in HeaderLines

\* C11: a section header (one digit and '.', or two digits and '.', at least 3
\* characters) is stored in no field; reading it sets the expected role to
\* NAME and leaves the in-progress record and the emitted records as they are.
C11_HeaderOnlyResets ==
    /\ []NoHeaderStored
    /\ [][ReadsHeader => (nextMode' = MODE_NAME /\ cc' = cc /\ clinics' = clinics)]_vars

\* a two-digit header was read in the middle of a record, after an emitted one
C11_Witness ==
    /\ pc = "parse"
    /\ Len(read) >= 4
    /\ read[Len(read)] = L_hdr
    /\ read[Len(read) - 1] = L_phone
    /\ cc.Name = L_name
    /\ cc.RawAddress = L_phone
    /\ nextMode = MODE_NAME
    /\ Len(clinics) = 1

\* the step reads a line that is not blank
ReadsNonBlank == Len(read') = Len(read) + 1 /\ read'[Len(read')] \notin BlankLines

\* the step in which Parse returns
ParseReturns == pc = "parse" /\ pc' # "parse"

\* C12: the end of the input flushes nothing: the lines after the last blank
\* line reach no emitted record, the collection handed on is the one built up
\* to the last blank line.
C12_NoFlushAtEOF ==
    /\ [][ReadsNonBlank => clinics' = clinics]_vars
    /\ [][ParseReturns => (clinics' = clinics /\ parsed' = clinics /\ cc' = cc)]_vars
    /\ [](pc # "parse" => (parsed = clinics /\ Len(parsed) = BlankCount(Len(read))))

\* Parse has returned with a name and an address read after the last blank line
C12_Witness ==
    /\ pc = "loop"
    /\ Len(read) = 7
    /\ read[1] = L_hdr
    /\ read[5] = L_space
    /\ read[7] = L_addrPad
    /\ cc = [ZeroClinic EXCEPT !.Name = L_name, !.RawAddress = L_addr]
    /\ Len(parsed) = 1
    /\ parsed[1].Phone = L_phone

\* the step reads a blank line
ReadsBlank == Len(read') = Len(read) + 1 /\ read'[Len(read')] \in BlankLines

\* C15: every blank line appends exactly one record, the one in progress with
\* whatever it holds, and resets the record in progress and the expected role;
\* the number of emitted records is the number of blank lines read.
C15_OneRecordPerBlank ==
    /\ [][ReadsBlank => (/\ clinics' = Append(clinics, cc)
                         /\ cc' = ZeroClinic
                         /\ nextMode' = MODE_NAME)]_vars
    /\ [](Len(clinics) = BlankCount(Len(read)))

\* two blank lines in a row after a name: the second record emitted is empty
C15_Witness ==
    /\ pc = "parse"
    /\ Len(read) = 4
    /\ read[3] = L_space
    /\ read[4] = L_space
    /\ Len(clinics) = 2
    /\ clinics[1].Name = L_name
    /\ clinics[1].RawAddress = <<>>
    /\ clinics[2] = ZeroClinic
    /\ cc = ZeroClinic

\* positions of the blank lines and headers read so far
Marks == {j \in 1..Len(read) : read[j] \in BlankLines \cup HeaderLines}

\* C20: the parser starts in _MODE_NONE: lines read before the first header or
\* blank line are stored nowhere, and a first block without a header yields an
\* empty record at its blank line.
C20_LeadingLinesDropped ==
    /\ Marks = {} => (nextMode = MODE_NONE /\ cc = ZeroClinic /\ clinics = <<>>)
    /\ \A q \in Marks :
           ((\A j \in Marks : q <= j) /\ read[q] \in BlankLines)
               => (Len(clinics) >= 1 /\ clinics[1] = ZeroClinic)

\* three lines without a header, then a blank line: one empty record
C20_Witness ==
    /\ pc = "parse"
    /\ read = <<L_name, L_short, L_phone, L_blank>>
    /\ clinics = <<ZeroClinic>>
    /\ cc = ZeroClinic

\* C13 as stated: whatever the calls return, the process completes and the
\* serializer emits one element for every parsed record.
C13_AlwaysCompletes ==
    /\ pc # "panic"
    /\ pc = "done" => Len(out) = Len(parsed)

\* the endpoint answered with status 200 and no feature member
ZeroResults(resp) ==
    resp.transport /\ resp.status = StatusOK /\ resp.decodable /\ Len(resp.members) = 0

\* a call that got zero results changes nothing but its own goroutine
ZeroResultIsLocal ==
    \A g \in Gs :
        (gor[g].st = "call" /\ gor'[g].st = "ret" /\ ZeroResults(gor'[g].resp))
            => /\ pc' = pc
               /\ clinics' = clinics
               /\ \A h \in Gs \ {g} : gor'[h] = gor[h]

WrittenByItsAttempt ==
    \A r \in Recs :
        clinics'[r] # clinics[r] => (Attempts(r) = 0 /\ Attempts(r)' = 1)

\* C18: the serializer runs after every mutation: when wg.Wait() has returned
\* every goroutine has ended, no record changes afterwards, each record is
\* written by at most one completed attempt, and the output is the encoding
\* of the final collection.
C18_EncodeAfterMutation ==
    /\ [](PassDone => (Len(gor) = Len(clinics) /\ \A g \in Gs : gor[g].st = "done"))
    /\ [][PassDone => clinics' = clinics]_vars
    /\ [][WrittenByItsAttempt]_vars
    /\ [](pc = "done" => out = [i \in Recs |-> EncodeClinic(clinics[i])])

\* the output holds the coordinates a goroutine stored in the second record
C18_Witness ==
    /\ pc = "done"
    /\ Len(out) = 2
    /\ out[1].points = <<>>
    /\ out[2].points # <<>>
    /\ out[2].points = clinics[2].Points
    /\ clinics[2] # parsed[2]

\* goroutines started and not yet past their receive from the limiter
Holding == {g \in Gs : gor[g].st # "done"}

\* C19 as stated: in every state the limiter holds as many elements as there
\* are goroutines started and not yet released.
C19_Original == limiter = Cardinality(Holding)

\* the step is the tail of exactly one goroutine whose call has returned
OneRelease ==
    \E g \in Gs :
        /\ gor[g].st = "ret"
        /\ gor' = [gor EXCEPT ![g].st = "done"]

\* C19: the limiter holds one element for every goroutine started and not yet
\* released, and one more while main has sent for a record whose goroutine it
\* has not started yet; an element is received exactly once per goroutine,
\* after its call has returned, with or without an error, and the limiter is
\* empty when wg.Wait() returns.
C19_SlotBalance ==
    /\ [](limiter = Cardinality(Holding) + (IF pc = "go" THEN 1 ELSE 0))
    /\ [][limiter' < limiter => (limiter' = limiter - 1 /\ OneRelease)]_vars
    /\ [][OneRelease => limiter' = limiter - 1]_vars
    /\ [](PassDone => limiter = 0)

\* main has sent for the second record and not started its goroutine, while
\* the first goroutine, whose call failed, still holds its element
C19_Witness ==
    /\ pc = "go"
    /\ idx = 2
    /\ Len(gor) = 1
    /\ gor[1].st = "ret"
    /\ gor[1].err # ""
    /\ limiter = 2

\* main stands at its send into the limiter and cannot take it
MainBlocked == pc = "send" /\ ~ENABLED Send

\* C16 as stated: the goroutine acquires the slot, so the dispatcher is never
\* blocked on the limiter while it hands out records.
C16_Original == ~MainBlocked

\* C16: every record gets its own goroutine, but it is main that acquires the
\* slot, before it starts the goroutine: while the limiter is full main is
\* blocked and hands out no later record; a started goroutine already holds
\* its slot and never waits for one.
C16_MainAcquires ==
    /\ [][limiter' > limiter
            => (pc = "send" /\ pc' = "go" /\ limiter' = limiter + 1 /\ gor' = gor)]_vars
    /\ [][MainBlocked => (pc' = pc /\ idx' = idx /\ Len(gor') = Len(gor))]_vars
    /\ [](limiter >= Cardinality(Holding))
    /\ [](\A g \in Gs : gor[g].cc = g /\ g <= idx)

\* main is blocked for the eleventh record while a goroutine is about to release
C16_Witness ==
    /\ MainBlocked
    /\ limiter = LimiterCap
    /\ idx = LimiterCap + 1
    /\ Len(gor) = LimiterCap
    /\ \E g \in Gs : gor[g].st = "ret"

\* goroutines whose call hangs
Hung == {g \in Gs : gor[g].st = "hung"}

\* C17: calls that hang (fewer than 10) keep their slot and their count in
\* the wait group forever; at most 10 minus their number of other calls are
\* in flight at once; every other record is still attempted and its call
\* returns; wg.Wait() never returns.
C17_HungCalls ==
    /\ [][\A g \in Hung : gor'[g].st = "hung"]_vars
    /\ [](limiter >= Cardinality(Hung) + Cardinality(InFlight))
    /\ [](wg >= Cardinality(Hung) + Cardinality(InFlight))
    /\ [](Cardinality(InFlight) <= LimiterCap - Cardinality(Hung))
    /\ [](Hung # {} => ~PassDone)
    /\ <>[](/\ Len(gor) = Len(clinics)
            /\ \A g \in Gs : gor[g].st \in {"done", "hung"})

\* nine calls hang, the tenth record's call is in flight and main is blocked
\* for the eleventh record
C17_Witness ==
    /\ Cardinality(Hung) = LimiterCap - 1
    /\ Cardinality(InFlight) = 1
    /\ pc = "send"
    /\ idx = LimiterCap + 1
    /\ limiter = LimiterCap

====
